---- MODULE Spec2Model ----
(***************************************************************************)
(* Model of src/main.py: the three source adapters                         *)
(* (get_traffic_penalties, get_parking_fees, get_insurance), the audit log *)
(* written by log_alert, and the /check handler that aggregates them.      *)
(*                                                                         *)
(* Conventions.                                                            *)
(*  - A Python str is a sequence of one-character strings, so that         *)
(*    str.upper() and str.lower() are computed character by character.     *)
(*  - A Python dict is a record; a key that is absent from the dict is     *)
(*    absent from the record's DOMAIN.                                     *)
(*  - None is the empty sequence <<>>, and a value that may be None is     *)
(*    <<v>> when present.                                                  *)
(*  - Money is counted in parts of 1/Unit of the currency unit, so that    *)
(*    the fractional amounts float() yields are exact integers here.       *)
(*  - Time is counted in ticks, TicksPerDay to the day, for the clock and  *)
(*    for coverNoteEndDate alike: int(text) / 1000 and fromtimestamp()     *)
(*    change the unit of an instant, never the instant.                    *)
(*  - An exception is modelled by the branch that raises it; str(e) is the *)
(*    name of the exception's class.                                       *)
(***************************************************************************)
EXTENDS Integers, Sequences, FiniteSets, TLC

VARIABLES
    pc,           \* position in check(): "idle","traffic","parking","insurance","respond","done"
    req,          \* the request being served (request.json)
    plate,        \* check(): plate
    lang,         \* check(): lang
    detail_type,  \* check(): detail_type
    tms,          \* the traffic service's answer to this request's call
    gepg,         \* the parking service's answer to this request's call
    tira,         \* the insurance service's answer, and the clock get_insurance read
    traffic,      \* check(): traffic
    parking,      \* check(): parking
    insurance,    \* check(): insurance
    log,          \* the lines of LOG_FILE, oldest first
    writable,     \* whether LOG_FILE can be opened for appending
    resp          \* the last response of /check

vars == <<pc, req, plate, lang, detail_type, tms, gepg, tira,
          traffic, parking, insurance, log, writable, resp>>

----------------------------------------------------------------------------
(* Bounds of the model.                                                    *)

Unit == 2
TicksPerDay == 2
NowBase == 100
MaxTickets == 2
MaxBills == 2
MaxEntries == 2
MaxLog == 3

----------------------------------------------------------------------------
(* Python values.                                                          *)

None == <<>>
Null == [null |-> TRUE]

Lowers == <<"a","b","c","d","e","f","g","h","i","j","k","l","m",
            "n","o","p","q","r","s","t","u","v","w","x","y","z">>
Uppers == <<"A","B","C","D","E","F","G","H","I","J","K","L","M",
            "N","O","P","Q","R","S","T","U","V","W","X","Y","Z">>

UpperChar(c) ==
    IF \E i \in DOMAIN Lowers : Lowers[i] = c
    THEN Uppers[CHOOSE i \in DOMAIN Lowers : Lowers[i] = c]
    ELSE c

LowerChar(c) ==
    IF \E i \in DOMAIN Uppers : Uppers[i] = c
    THEN Lowers[CHOOSE i \in DOMAIN Uppers : Uppers[i] = c]
    ELSE c

\* str.upper()
Upper(s) == [i \in DOMAIN s |-> UpperChar(s[i])]

\* str.lower()
Lower(s) == [i \in DOMAIN s |-> LowerChar(s[i])]

\* int(x) of a number of Unit parts: the fraction is dropped, towards zero.
ToInt(x) == IF x >= 0 THEN x \div Unit ELSE -((-x) \div Unit)

\* timedelta.days of a difference of ticks: whole days, rounded down.
\* (a variant that cuts towards zero, as int() does)
daysTruncated(delta) == IF delta >= 0 THEN delta \div TicksPerDay ELSE -((-delta) \div TicksPerDay)

\* timedelta.days
days(delta) == delta \div TicksPerDay

\* datetime.strftime('%Y-%m-%d'): the calendar day of an instant.
strftime(t) == t \div TicksPerDay

RECURSIVE SumSeq(_)
SumSeq(s) == IF s = <<>> THEN 0 ELSE s[1] + SumSeq(Tail(s))

SeqsUpTo(S, n) == UNION {[1..k -> S] : k \in 0..n}

----------------------------------------------------------------------------
(* What a source function hands back: its return value and the lines it    *)
(* appended to the audit log.                                              *)

Ret(v, out) == [ret |-> v, out |-> out]
Err(name) == Ret([error |-> name], <<>>)

\* requests.post raises on a network error or a timeout; otherwise it
\* returns a response with a status code and a body.
Raised(res) == "exc" \in DOMAIN res

\* Response.raise_for_status(): raises for 4xx and 5xx only.
raise_for_status(res) == res.status >= 400 /\ res.status < 600

\* log_alert(message): the line appended; the message is built from the
\* source, the plate and the figure it reports.
log_alert(src, p, n) == [src |-> src, plate |-> p, n |-> n]

----------------------------------------------------------------------------
(* get_traffic_penalties                                                   *)

\* t.get(k, 0)
Field(t, k) == IF k \in DOMAIN t THEN t[k] ELSE [num |-> 0]

\* float(v) succeeds
IsNum(v) == "num" \in DOMAIN v

\* float(t.get("charge", 0)) + float(t.get("penalty", 0))
TicketSum(t) == Field(t, "charge").num + Field(t, "penalty").num

\* (a variant that adds up all tickets before it truncates)
PenaltyTotalSumThenTruncate(tickets) ==
    ToInt(SumSeq([i \in DOMAIN tickets |-> TicketSum(tickets[i])]))

\* sum(int(float(charge) + float(penalty)) for t in tickets)
PenaltyTotal(tickets) ==
    SumSeq([i \in DOMAIN tickets |-> ToInt(TicketSum(tickets[i]))])

\* data.get("status") == "success" and data.get("pending_transactions")
HasPending(data) ==
    /\ "status" \in DOMAIN data
    /\ data.status = "success"
    /\ "pending_transactions" \in DOMAIN data
    /\ data.pending_transactions # <<>>

get_traffic_penalties(p, res, canLog) ==
    IF Raised(res) THEN Err(res.exc)
    ELSE IF raise_for_status(res) THEN Err("HTTPError")
    ELSE IF ~res.body.json THEN Err("JSONDecodeError")
    ELSE IF HasPending(res.body.data)
    THEN LET tickets == res.body.data.pending_transactions
         IN  IF \E i \in DOMAIN tickets :
                    ~IsNum(Field(tickets[i], "charge")) \/ ~IsNum(Field(tickets[i], "penalty"))
             THEN Err("ValueError")
             ELSE IF ~canLog THEN Err("OSError")
             ELSE LET total == PenaltyTotal(tickets)
                  IN  Ret([found |-> TRUE, tickets |-> tickets, total |-> total],
                          <<log_alert("traffic", p, total)>>)
    ELSE Ret([found |-> FALSE], <<>>)

----------------------------------------------------------------------------
(* get_parking_fees                                                        *)

\* res.json()[0].get("billDetails", [])
BillDetails(first) == IF "billDetails" \in DOMAIN first THEN first.billDetails ELSE <<>>

\* int(sum([float(b["billAmount"]) for b in bills]))
ParkingTotal(bills) == ToInt(SumSeq([i \in DOMAIN bills |-> bills[i].billAmount.num]))

get_parking_fees(p, res, canLog) ==
    IF Raised(res) THEN Err(res.exc)
    ELSE IF ~res.body.json THEN Err("JSONDecodeError")
    ELSE IF res.body.data = <<>> THEN Err("IndexError")
    ELSE LET bills == BillDetails(res.body.data[1])
         IN  IF bills = <<>> THEN Ret([found |-> FALSE], <<>>)
             ELSE IF \E i \in DOMAIN bills : "billAmount" \notin DOMAIN bills[i]
             THEN Err("KeyError")
             ELSE IF \E i \in DOMAIN bills : ~IsNum(bills[i].billAmount)
             THEN Err("ValueError")
             ELSE IF ~canLog THEN Err("OSError")
             ELSE LET total == ParkingTotal(bills)
                  IN  Ret([found |-> TRUE, bills |-> bills, total |-> total],
                          <<log_alert("parking", p, total)>>)

----------------------------------------------------------------------------
(* get_insurance                                                           *)

ACTIVE == <<"A","C","T","I","V","E">>

\* e.findtext("statusTitle", "")
StatusTitle(e) == IF "statusTitle" \in DOMAIN e THEN e.statusTitle ELSE <<>>

\* e.findtext("statusTitle", "").upper() == "ACTIVE"
IsActive(e) == Upper(StatusTitle(e)) = ACTIVE

\* (a variant that takes the last active entry)
LastActive(entries) ==
    IF \E i \in DOMAIN entries : IsActive(entries[i])
    THEN CHOOSE i \in DOMAIN entries :
            IsActive(entries[i]) /\ \A j \in DOMAIN entries : IsActive(entries[j]) => j <= i
    ELSE 0

\* next((e for e in entries if ...), None): the index of the first active
\* entry, 0 when there is none.
FirstActive(entries) ==
    IF \E i \in DOMAIN entries : IsActive(entries[i])
    THEN CHOOSE i \in DOMAIN entries :
            IsActive(entries[i]) /\ \A j \in DOMAIN entries : IsActive(entries[j]) => i <= j
    ELSE 0

\* e.findtext("coverNoteEndDate", "0"): the text of the field, "0" (the
\* epoch) when the element is absent.
EndDateText(e) == IF "coverNoteEndDate" \in DOMAIN e THEN e.coverNoteEndDate ELSE [int |-> 0]

\* int(text) and datetime.fromtimestamp succeed
IsDate(v) == "int" \in DOMAIN v

\* line 77: return {"expired": True, "expired_days": None}
ExpiredUnknown == [expired |-> TRUE, expired_days |-> None]

\* (a variant with a state of its own for no entry)
NoRecordState == [no_record |-> TRUE]

\* line 65: the same dict, returned when there is no entry at all
NoEntriesResult == [expired |-> TRUE, expired_days |-> None]

\* lines 70-77: no entry is active
ExpiredBranch(p, entries, now, canLog) ==
    LET text == EndDateText(entries[1])
    IN  IF ~IsDate(text) THEN Ret(ExpiredUnknown, <<>>)
        ELSE LET d == days(now - text.int)
             IN  IF ~canLog THEN Ret(ExpiredUnknown, <<>>)
                 ELSE Ret([expired |-> TRUE, expired_days |-> <<d>>],
                          <<log_alert("insurance", p, d)>>)

\* (a variant that writes an audit line for an active entry too)
ActiveBranchLogged(p, active, now) ==
    LET text == EndDateText(active)
    IN  IF ~IsDate(text) THEN Err("ValueError")
        ELSE Ret([active |-> TRUE, valid_till |-> strftime(text.int),
                  remaining_days |-> days(text.int - now)],
                 <<log_alert("insurance", p, days(text.int - now))>>)

\* lines 78-86: entry `active` is the first active one
ActiveBranch(p, active, now) ==
    LET text == EndDateText(active)
    IN  IF ~IsDate(text) THEN Err("ValueError")
        ELSE Ret([active |-> TRUE, valid_till |-> strftime(text.int),
                  remaining_days |-> days(text.int - now)], <<>>)

get_insurance(p, res, now, canLog) ==
    IF Raised(res) THEN Err(res.exc)
    ELSE IF ~res.body.xml THEN Err("ParseError")
    ELSE LET entries == res.body.entries
         IN  IF entries = <<>> THEN Ret(NoEntriesResult, <<>>)
             ELSE IF FirstActive(entries) = 0
             THEN ExpiredBranch(p, entries, now, canLog)
             ELSE ActiveBranch(p, entries[FirstActive(entries)], now)

----------------------------------------------------------------------------
(* /check                                                                  *)

EN == <<"e","n">>
FULL == <<"f","u","l","l">>
SUMMARY == <<"s","u","m","m","a","r","y">>
ExpiringSoonDays == 10

\* data.get(k, default) followed by .upper() or .lower(): the call raises
\* AttributeError when the value is not a string.
IsStr(data, k) == k \in DOMAIN data => "str" \in DOMAIN data[k]
GetStr(data, k, default) == IF k \in DOMAIN data THEN data[k].str ELSE default

\* lines 93-96 raise: request.json fails, or a field is not a string
BadRequest(r) ==
    \/ ~r.json
    \/ ~IsStr(r.data, "plate")
    \/ ~IsStr(r.data, "lang")
    \/ ~IsStr(r.data, "type")

\* the message of one notification: its wording in the language chosen, and
\* the number interpolated into it, if any
Msg(l, en, sw, n) == [text |-> IF l = EN THEN en ELSE sw, n |-> n]

\* x.get(k) is truthy, for a boolean field
Truthy(x, k) == k \in DOMAIN x /\ x[k]

\* (a variant that leaves out the insurance with exactly ten days left)
NotificationsStrict(t, p, i, l) ==
    (IF Truthy(t, "found")
     THEN <<Msg(l, "Traffic Violation", "Kuna makosa ya barabarani", None)>> ELSE <<>>)
    \o (IF Truthy(p, "found")
        THEN <<Msg(l, "Unpaid Parking", "Kuna maegesho hayajalipwa", None)>> ELSE <<>>)
    \o (IF Truthy(i, "expired")
        THEN <<Msg(l, "Insurance Expired", "Bima imekwisha muda wake", None)>> ELSE <<>>)
    \o (IF Truthy(i, "active") /\ i.remaining_days < ExpiringSoonDays
        THEN <<Msg(l, "Insurance expiring soon", "Bima inakaribia kuisha",
                   <<i.remaining_days>>)>> ELSE <<>>)

\* lines 107-119
Notifications(t, p, i, l) ==
    (IF Truthy(t, "found")
     THEN <<Msg(l, "Traffic Violation", "Kuna makosa ya barabarani", None)>> ELSE <<>>)
    \o (IF Truthy(p, "found")
        THEN <<Msg(l, "Unpaid Parking", "Kuna maegesho hayajalipwa", None)>> ELSE <<>>)
    \o (IF Truthy(i, "expired")
        THEN <<Msg(l, "Insurance Expired", "Bima imekwisha muda wake", None)>> ELSE <<>>)
    \o (IF Truthy(i, "active") /\ i.remaining_days <= ExpiringSoonDays
        THEN <<Msg(l, "Insurance expiring soon", "Bima inakaribia kuisha",
                   <<i.remaining_days>>)>> ELSE <<>>)

\* (a variant that replaces a failed source's result by "not found")
FullReportDroppingErrors(pl, t, p, i, n) ==
    LET keep(x) == IF "error" \in DOMAIN x THEN [found |-> FALSE] ELSE x
    IN  [plate |-> pl, traffic_penalties |-> keep(t), parking_fees |-> keep(p),
         insurance |-> i, notifications |-> n]

\* lines 98-105 and 127: the full report
FullReport(pl, t, p, i, n) ==
    [plate |-> pl, traffic_penalties |-> t, parking_fees |-> p,
     insurance |-> i, notifications |-> n]

\* (a variant whose summary keeps the insurance result)
ShapeSummaryKeepsInsurance(dt, pl, t, p, i, n) ==
    IF dt = SUMMARY THEN [plate |-> pl, insurance |-> i, notifications |-> n]
    ELSE FullReport(pl, t, p, i, n)

\* lines 121-127
Shape(dt, pl, t, p, i, n) ==
    IF dt = SUMMARY THEN [plate |-> pl, notifications |-> n]
    ELSE FullReport(pl, t, p, i, n)

----------------------------------------------------------------------------
(* The environment: what the three services may answer, what a client may  *)
(* send, and what the clock may show.                                      *)

Failures == {[exc |-> "ConnectionError"], [exc |-> "Timeout"]}
Statuses == {200, 500}

Charges == {[num |-> 0 - (Unit + 1)], [num |-> 1], [str |-> "n/a"]}
Penalties == {[num |-> 1], [num |-> 2 * Unit]}
Tickets ==
    {[ref |-> "t"]}
    \cup {[ref |-> "t", charge |-> c] : c \in Charges}
    \cup {[ref |-> "t", penalty |-> q] : q \in Penalties}
    \cup {[ref |-> "t", charge |-> c, penalty |-> q] : c \in Charges, q \in Penalties}
TmsData ==
    {[status |-> st] : st \in {"success", "failed"}}
    \cup {[status |-> st, pending_transactions |-> ts] :
            st \in {"success", "failed"}, ts \in SeqsUpTo(Tickets, MaxTickets)}
TmsBodies == {[json |-> FALSE]} \cup {[json |-> TRUE, data |-> d] : d \in TmsData}
TmsResponses == Failures \cup {[status |-> st, body |-> b] : st \in Statuses, b \in TmsBodies}

Bills ==
    {[billId |-> "b"]}
    \cup {[billId |-> "b", billAmount |-> a] :
            a \in {[num |-> 1], [num |-> Unit + 1], [str |-> "n/a"]}}
GepgFirst ==
    {[spCode |-> "SP99860"]}
    \cup {[spCode |-> "SP99860", billDetails |-> bs] : bs \in SeqsUpTo(Bills, MaxBills)}
GepgBodies ==
    {[json |-> FALSE], [json |-> TRUE, data |-> <<>>]}
    \cup {[json |-> TRUE, data |-> <<f>>] : f \in GepgFirst}
GepgResponses == Failures \cup {[status |-> st, body |-> b] : st \in Statuses, b \in GepgBodies}

Nows == {NowBase * TicksPerDay, NowBase * TicksPerDay + 1}
At(d) == [int |-> NowBase * TicksPerDay + d]
Titles == {ACTIVE, <<"A","c","t","i","v","e">>, <<"E","X","P","I","R","E","D">>}
EndDates ==
    {[txt |-> "n/a"], At(0 - 30 * TicksPerDay), At(0 - 1), At(5 * TicksPerDay),
     At((ExpiringSoonDays + 1) * TicksPerDay)}
Entries ==
    {[coverNoteNumber |-> "c"]}
    \cup {[coverNoteNumber |-> "c", statusTitle |-> st] :
            st \in {ACTIVE, <<"E","X","P","I","R","E","D">>}}
    \cup {[coverNoteNumber |-> "c", statusTitle |-> st, coverNoteEndDate |-> d] :
            st \in Titles, d \in EndDates}
TiraBodies ==
    {[xml |-> FALSE]} \cup {[xml |-> TRUE, entries |-> es] : es \in SeqsUpTo(Entries, MaxEntries)}
TiraResponses == Failures \cup {[status |-> st, body |-> b] : st \in Statuses, b \in TiraBodies}

Plates == {<<"T","1">>}
SeedLogs == {<<>>, <<log_alert("parking", <<"T","0">>, 1)>>}

PlateValues == {[str |-> <<"t","1">>], [num |-> 1]}
LangValues == {[str |-> <<"E","N">>], [str |-> <<"s","w">>]}
TypeValues == {[str |-> SUMMARY], [str |-> <<"S","u","m","m","a","r","y">>],
               [str |-> <<"b","r","i","e","f">>], [num |-> 1]}
RequestData ==
    LET withPlate == {[client |-> "app", plate |-> v] : v \in PlateValues}
        withLang == withPlate \cup {d @@ ("lang" :> v) : d \in withPlate, v \in LangValues}
    IN  withLang \cup {d @@ ("type" :> v) : d \in withLang, v \in TypeValues}
        \cup {[client |-> "app"]}
Requests == {[json |-> FALSE]} \cup {[json |-> TRUE, data |-> d] : d \in RequestData}

\* The answers the services give while /check is served: one of each kind.
TmsFound ==
    [json |-> TRUE, data |-> [status |-> "success", pending_transactions |->
        <<[ref |-> "t", charge |-> [num |-> 1], penalty |-> [num |-> 2 * Unit]]>>]]
TmsSample ==
    {[exc |-> "Timeout"], [status |-> 500, body |-> TmsFound]}
    \cup {[status |-> 200, body |-> b] :
            b \in {[json |-> FALSE], TmsFound,
                   [json |-> TRUE, data |-> [status |-> "success", pending_transactions |-> <<>>]]}}
GepgFound ==
    [json |-> TRUE, data |-> <<[spCode |-> "SP99860", billDetails |->
        <<[billId |-> "b", billAmount |-> [num |-> Unit + 1]]>>]>>]
GepgSample ==
    {[exc |-> "Timeout"], [status |-> 500, body |-> GepgFound]}
    \cup {[status |-> 200, body |-> b] :
            b \in {[json |-> FALSE], GepgFound,
                   [json |-> TRUE, data |-> <<[spCode |-> "SP99860"]>>]}}
TiraSample ==
    {[exc |-> "Timeout"], [status |-> 200, body |-> [xml |-> FALSE]],
     [status |-> 200, body |-> [xml |-> TRUE, entries |-> <<>>]]}
    \cup {[status |-> 200, body |-> [xml |-> TRUE, entries |-> <<e>>]] :
            e \in {[coverNoteNumber |-> "c", statusTitle |-> st, coverNoteEndDate |-> d] :
                      st \in {ACTIVE, <<"E","X","P","I","R","E","D">>},
                      d \in {At(0 - 30 * TicksPerDay), At(5 * TicksPerDay),
                             At((ExpiringSoonDays + 1) * TicksPerDay)}}}

----------------------------------------------------------------------------
(* The steps of check().                                                   *)

\* lines 93-96, and line 132 when they raise
Receive ==
    /\ pc = "idle"
    /\ Len(log) + 3 <= MaxLog
    /\ \E r \in Requests :
        /\ req' = r
        /\ IF BadRequest(r)
           THEN /\ resp' = [status |-> 500, body |-> [error |-> "Exception"]]
                /\ pc' = "idle"
                /\ plate' = <<>> /\ lang' = <<>> /\ detail_type' = <<>>
           ELSE /\ resp' = Null
                /\ pc' = "traffic"
                /\ plate' = Upper(GetStr(r.data, "plate", <<>>))
                /\ lang' = Lower(GetStr(r.data, "lang", EN))
                /\ detail_type' = Lower(GetStr(r.data, "type", FULL))
    /\ tms' = Null /\ gepg' = Null /\ tira' = Null
    /\ traffic' = Null /\ parking' = Null /\ insurance' = Null
    /\ UNCHANGED <<log, writable>>

\* line 99, with the service's answer drawn from S
TrafficStep(S, next) ==
    /\ pc = "traffic"
    /\ \E res \in S :
        LET r == get_traffic_penalties(plate, res, writable)
        IN  /\ tms' = res
            /\ traffic' = r.ret
            /\ log' = log \o r.out
    /\ pc' = next
    /\ UNCHANGED <<req, plate, lang, detail_type, gepg, tira, parking, insurance, writable, resp>>

\* line 100
ParkingStep(S, next) ==
    /\ pc = "parking"
    /\ \E res \in S :
        LET r == get_parking_fees(plate, res, writable)
        IN  /\ gepg' = res
            /\ parking' = r.ret
            /\ log' = log \o r.out
    /\ pc' = next
    /\ UNCHANGED <<req, plate, lang, detail_type, tms, tira, traffic, insurance, writable, resp>>

\* line 101
InsuranceStep(S, next) ==
    /\ pc = "insurance"
    /\ \E res \in S, now \in Nows :
        LET r == get_insurance(plate, res, now, writable)
        IN  /\ tira' = [res |-> res, now |-> now]
            /\ insurance' = r.ret
            /\ log' = log \o r.out
    /\ pc' = next
    /\ UNCHANGED <<req, plate, lang, detail_type, tms, gepg, traffic, parking, writable, resp>>

CallTraffic == TrafficStep(TmsSample, "parking")
CallParking == ParkingStep(GepgSample, "insurance")
CallInsurance == InsuranceStep(TiraSample, "respond")

\* lines 103-129
Respond ==
    /\ pc = "respond"
    /\ resp' = [status |-> 200,
                body |-> Shape(detail_type, plate, traffic, parking, insurance,
                               Notifications(traffic, parking, insurance, lang))]
    /\ pc' = "idle"
    /\ UNCHANGED <<req, plate, lang, detail_type, tms, gepg, tira,
                   traffic, parking, insurance, log, writable>>

Init ==
    /\ pc = "idle"
    /\ req = Null /\ resp = Null
    /\ plate = <<>> /\ lang = <<>> /\ detail_type = <<>>
    /\ tms = Null /\ gepg = Null /\ tira = Null
    /\ traffic = Null /\ parking = Null /\ insurance = Null
    /\ log = <<>>
    /\ writable \in BOOLEAN

Next == Receive \/ CallTraffic \/ CallParking \/ CallInsurance \/ Respond

Spec == Init /\ [][Next]_vars

----------------------------------------------------------------------------
(* One call of one source function, on any answer of its service, with an  *)
(* audit log that may already hold lines.                                  *)

InitSources ==
    /\ pc \in {"traffic", "parking", "insurance"}
    /\ req = Null /\ resp = Null
    /\ plate \in Plates /\ lang = <<>> /\ detail_type = <<>>
    /\ tms = Null /\ gepg = Null /\ tira = Null
    /\ traffic = Null /\ parking = Null /\ insurance = Null
    /\ log \in SeedLogs
    /\ writable \in BOOLEAN

FetchTraffic == TrafficStep(TmsResponses, "done")
FetchParking == ParkingStep(GepgResponses, "done")
FetchInsurance == InsuranceStep(TiraResponses, "done")

NextSources == FetchTraffic \/ FetchParking \/ FetchInsurance

SpecSources == InitSources /\ [][NextSources]_vars

----------------------------------------------------------------------------
(* Properties.                                                             *)

\* /check has answered the request in req with a report
Reported == pc = "idle" /\ req # Null /\ resp # Null /\ ~BadRequest(req)

\* the request's own "type" field, "full" when it has none
RawType == GetStr(req.data, "type", FULL)

\* each source function has returned
TrafficCalled == tms # Null /\ traffic # Null
ParkingCalled == gepg # Null /\ parking # Null
InsuranceCalled == tira # Null /\ insurance # Null

IsError(x) == "error" \in DOMAIN x

\* the service answered at all, and its body parsed
TiraParsed == InsuranceCalled /\ ~Raised(tira.res) /\ tira.res.body.xml
TiraEntries == tira.res.body.entries

\* the status title equals "ACTIVE" whatever the case of its letters
SaysActive(e) == Lower(StatusTitle(e)) = Lower(ACTIVE)

\* C1: whatever each source returned, a well-formed request for the full
\* report is answered 200 after all three sources were called, and the
\* report carries each source's own return value unchanged.
C1_FullReportKeepsEverySource ==
    (Reported /\ detail_type # SUMMARY) =>
        /\ resp.status = 200
        /\ TrafficCalled /\ ParkingCalled /\ InsuranceCalled
        /\ DOMAIN resp.body =
             {"plate", "traffic_penalties", "parking_fees", "insurance", "notifications"}
        /\ resp.body.traffic_penalties = get_traffic_penalties(plate, tms, writable).ret
        /\ resp.body.parking_fees = get_parking_fees(plate, gepg, writable).ret
        /\ resp.body.insurance = get_insurance(plate, tira.res, tira.now, writable).ret

C1_Witness ==
    /\ Reported /\ detail_type # SUMMARY
    /\ IsError(parking) /\ gepg = [exc |-> "Timeout"]
    /\ Truthy(traffic, "found") /\ Truthy(insurance, "active")
    /\ resp.status = 200
    /\ resp.body.traffic_penalties = traffic /\ resp.body.insurance = insurance

\* C2 as claimed: with the response parsed and no "data" entry, the result
\* is a state of its own, distinct from Expired (unknown days included),
\* from Active and from an error-result.
C2_NoRecordIsDistinct ==
    (TiraParsed /\ TiraEntries = <<>>) =>
        /\ insurance # [expired |-> TRUE, expired_days |-> None]
        /\ ~Truthy(insurance, "expired")
        /\ ~Truthy(insurance, "active")
        /\ ~IsError(insurance)

\* C2 as amended: with the response parsed and no "data" entry, the result
\* is the very dict the expired branch returns for unknown days, which is
\* neither Active nor an error-result.
C2_NoEntriesIsExpiredUnknown ==
    (TiraParsed /\ TiraEntries = <<>>) =>
        /\ insurance = [expired |-> TRUE, expired_days |-> None]
        /\ ~Truthy(insurance, "active")
        /\ ~IsError(insurance)

C2_Witness ==
    /\ TiraParsed /\ TiraEntries = <<>>
    /\ insurance = [expired |-> TRUE, expired_days |-> None]

\* The notifications the four conditions select, in the fixed order.
C3_Selected(c1, c2, c3, c4) ==
    (IF c1 THEN <<Msg(lang, "Traffic Violation", "Kuna makosa ya barabarani", None)>>
     ELSE <<>>)
    \o (IF c2 THEN <<Msg(lang, "Unpaid Parking", "Kuna maegesho hayajalipwa", None)>>
        ELSE <<>>)
    \o (IF c3 THEN <<Msg(lang, "Insurance Expired", "Bima imekwisha muda wake", None)>>
        ELSE <<>>)
    \o (IF c4 THEN <<Msg(lang, "Insurance expiring soon", "Bima inakaribia kuisha",
                        <<insurance.remaining_days>>)>>
        ELSE <<>>)

C3_Found(x) == ~IsError(x) /\ "found" \in DOMAIN x /\ x.found
C3_Soon == ~IsError(insurance) /\ "active" \in DOMAIN insurance
           /\ insurance.remaining_days <= 10
C3_NoRecord == TiraParsed /\ TiraEntries = <<>>

\* C3 as claimed: the notifications are exactly those whose condition
\* holds, in the fixed order, and an insurance answer without entries
\* (NoRecord) contributes none.
C3_NotificationsAsClaimed ==
    Reported =>
        resp.body.notifications =
            C3_Selected(C3_Found(traffic), C3_Found(parking),
                        "expired" \in DOMAIN insurance /\ ~C3_NoRecord, C3_Soon)

\* C3 as amended: the same, except that an insurance answer without
\* entries counts as Expired and contributes "Insurance Expired".
C3_NotificationsWithNoEntriesExpired ==
    Reported =>
        resp.body.notifications =
            C3_Selected(C3_Found(traffic), C3_Found(parking),
                        "expired" \in DOMAIN insurance, C3_Soon)

C3_Witness ==
    /\ Reported
    /\ C3_Found(traffic) /\ IsError(parking)
    /\ C3_Soon /\ insurance.remaining_days = 10
    /\ Len(resp.body.notifications) = 2
    /\ resp.body.notifications[2].n = <<10>>

\* C4 as claimed: the report has exactly the fields plate and
\* notifications when the request's type is "summary", and is the full
\* report for any other type.
C4_SummaryOnlyForExactType ==
    Reported =>
        IF RawType = SUMMARY
        THEN DOMAIN resp.body = {"plate", "notifications"}
        ELSE DOMAIN resp.body =
               {"plate", "traffic_penalties", "parking_fees", "insurance", "notifications"}

\* C4 as amended: the report has exactly the fields plate and
\* notifications when the request's type is "summary" in any letter case,
\* and is the full report for any other string or for no type at all; the
\* notifications are the same in both shapes.
C4_SummaryForAnyCase ==
    Reported =>
        /\ IF Upper(RawType) = Upper(SUMMARY)
           THEN DOMAIN resp.body = {"plate", "notifications"}
           ELSE DOMAIN resp.body =
                  {"plate", "traffic_penalties", "parking_fees", "insurance", "notifications"}
        /\ resp.body.plate = plate
        /\ resp.body.notifications = Notifications(traffic, parking, insurance, lang)

C4_Witness ==
    /\ Reported
    /\ RawType # SUMMARY /\ Upper(RawType) = Upper(SUMMARY)
    /\ DOMAIN resp.body = {"plate", "notifications"}
    /\ IsError(traffic) /\ Truthy(parking, "found")
    /\ resp.body.notifications # <<>>

\* A ticket's charge plus penalty, a missing one counting 0, cut to whole
\* units towards zero.
C5_Truncated(t) ==
    LET c == IF "charge" \in DOMAIN t THEN t.charge.num ELSE 0
        q == IF "penalty" \in DOMAIN t THEN t.penalty.num ELSE 0
    IN  IF c + q >= 0 THEN (c + q) \div Unit ELSE 0 - ((0 - (c + q)) \div Unit)

RECURSIVE C5_SumOfTruncated(_)
C5_SumOfTruncated(ts) ==
    IF ts = <<>> THEN 0 ELSE C5_Truncated(ts[1]) + C5_SumOfTruncated(Tail(ts))

\* C5: when tickets are found, the total is the sum over the tickets of
\* truncate(charge + penalty), each ticket truncated before it is added.
C5_TotalIsSumOfTruncatedTickets ==
    (TrafficCalled /\ Truthy(traffic, "found")) =>
        /\ tms.body.data.status = "success"
        /\ traffic.tickets = tms.body.data.pending_transactions
        /\ traffic.tickets # <<>>
        /\ traffic.total = C5_SumOfTruncated(traffic.tickets)

\* two tickets whose fractions add up to a whole unit, one of them without
\* a penalty: truncating the sum of all would give one unit more
C5_Witness ==
    /\ TrafficCalled /\ Truthy(traffic, "found")
    /\ Len(traffic.tickets) = 2
    /\ \E i \in 1..2 : "penalty" \notin DOMAIN traffic.tickets[i]
    /\ traffic.total = C5_SumOfTruncated(traffic.tickets)
    /\ traffic.total < PenaltyTotalSumThenTruncate(traffic.tickets)

\* the first entry that says active, 0 when none does
C6_First(es) ==
    IF \E i \in DOMAIN es : SaysActive(es[i])
    THEN CHOOSE i \in DOMAIN es : SaysActive(es[i]) /\ \A j \in 1..(i - 1) : ~SaysActive(es[j])
    ELSE 0

\* the end date of an entry converts to an instant ("0" when missing)
C6_Converts(e) == "coverNoteEndDate" \notin DOMAIN e \/ "int" \in DOMAIN e.coverNoteEndDate
C6_End(e) == IF "coverNoteEndDate" \in DOMAIN e THEN e.coverNoteEndDate.int ELSE 0

\* C6 as claimed: with entries, the result is Active and computed from the
\* first active entry if there is one, and otherwise Expired and computed
\* from the first entry.
C6_SelectionAsClaimed ==
    (TiraParsed /\ TiraEntries # <<>>) =>
        LET k == C6_First(TiraEntries)
        IN  IF k # 0
            THEN /\ Truthy(insurance, "active")
                 /\ C6_Converts(TiraEntries[k])
                 /\ insurance.remaining_days = days(C6_End(TiraEntries[k]) - tira.now)
            ELSE /\ Truthy(insurance, "expired")
                 /\ insurance.expired_days # None =>
                        /\ C6_Converts(TiraEntries[1])
                        /\ insurance.expired_days = <<days(tira.now - C6_End(TiraEntries[1]))>>

\* C6 as amended: with entries, the result is computed from the first
\* active entry if there is one (Active, or an error-result when that
\* entry's end date does not convert), and otherwise it is Expired and
\* computed from the first entry.
C6_SelectionWithErrorResult ==
    (TiraParsed /\ TiraEntries # <<>>) =>
        LET k == C6_First(TiraEntries)
        IN  IF k # 0
            THEN IF C6_Converts(TiraEntries[k])
                 THEN /\ Truthy(insurance, "active")
                      /\ insurance.remaining_days = days(C6_End(TiraEntries[k]) - tira.now)
                      /\ insurance.valid_till = strftime(C6_End(TiraEntries[k]))
                 ELSE IsError(insurance)
            ELSE /\ Truthy(insurance, "expired")
                 /\ insurance.expired_days # None =>
                        /\ C6_Converts(TiraEntries[1])
                        /\ insurance.expired_days = <<days(tira.now - C6_End(TiraEntries[1]))>>

\* an inactive entry before an active one of another date, whose title is
\* not in capitals
C6_Witness ==
    /\ TiraParsed /\ Len(TiraEntries) = 2
    /\ ~SaysActive(TiraEntries[1])
    /\ SaysActive(TiraEntries[2]) /\ StatusTitle(TiraEntries[2]) # ACTIVE
    /\ C6_Converts(TiraEntries[1]) /\ C6_Converts(TiraEntries[2])
    /\ Truthy(insurance, "active")
    /\ insurance.remaining_days = days(C6_End(TiraEntries[2]) - tira.now)
    /\ insurance.remaining_days # days(C6_End(TiraEntries[1]) - tira.now)

\* C7 as claimed: in the expired branch, a first entry whose end date is
\* missing or does not parse gives Expired with unknown days.
C7_MissingOrUnparseableIsUnknown ==
    (/\ TiraParsed /\ TiraEntries # <<>> /\ C6_First(TiraEntries) = 0
     /\ \/ "coverNoteEndDate" \notin DOMAIN TiraEntries[1]
        \/ "int" \notin DOMAIN TiraEntries[1].coverNoteEndDate) =>
        insurance = [expired |-> TRUE, expired_days |-> None]

\* C8 as claimed: the day counts are the difference of the two instants
\* cut to whole days towards zero.
C8_DaysTruncated ==
    (TiraParsed /\ TiraEntries # <<>>) =>
        /\ Truthy(insurance, "active") =>
             insurance.remaining_days =
                daysTruncated(C6_End(TiraEntries[C6_First(TiraEntries)]) - tira.now)
        /\ (Truthy(insurance, "expired") /\ insurance.expired_days # None) =>
             insurance.expired_days = <<daysTruncated(tira.now - C6_End(TiraEntries[1]))>>

\* n is the number of whole days in delta ticks, rounded down
C8_IsFloor(n, delta) == n * TicksPerDay <= delta /\ delta < (n + 1) * TicksPerDay

\* C8 as amended: the day counts are the difference of the two instants in
\* whole days rounded down, so that a negative difference with a fraction
\* of a day gives one day less than cutting towards zero would.
C8_DaysRoundedDown ==
    (TiraParsed /\ TiraEntries # <<>>) =>
        /\ Truthy(insurance, "active") =>
             C8_IsFloor(insurance.remaining_days,
                        C6_End(TiraEntries[C6_First(TiraEntries)]) - tira.now)
        /\ (Truthy(insurance, "expired") /\ insurance.expired_days # None) =>
             C8_IsFloor(insurance.expired_days[1], tira.now - C6_End(TiraEntries[1]))

\* an active entry that ended a fraction of a day ago: -1, not 0
C8_Witness ==
    /\ TiraParsed /\ Len(TiraEntries) = 1
    /\ Truthy(insurance, "active")
    /\ C6_End(TiraEntries[1]) < tira.now
    /\ tira.now - C6_End(TiraEntries[1]) < TicksPerDay
    /\ insurance.remaining_days = 0 - 1

\* the call met a transport failure: no answer, or an answer whose status
\* is not 2xx
C9_TransportFailure(res) == Raised(res) \/ res.status < 200 \/ res.status > 299

\* C9 as claimed: a transport failure of a source gives an error-result
\* for that source.
C9_TransportFailureIsErrorResult ==
    /\ (TrafficCalled /\ C9_TransportFailure(tms)) => IsError(traffic)
    /\ (ParkingCalled /\ C9_TransportFailure(gepg)) => IsError(parking)
    /\ (InsuranceCalled /\ C9_TransportFailure(tira.res)) => IsError(insurance)

\* get_insurance took the expired branch: entries, none of them active
C10_ExpiredBranch(t) ==
    /\ t # Null /\ ~Raised(t.res) /\ t.res.body.xml
    /\ t.res.body.entries # <<>>
    /\ C6_First(t.res.body.entries) = 0

\* C10: the audit log only grows at its end; a call of get_insurance
\* appends at most one line, and none unless it took the expired branch.
C10_AuditLogAppendOnly ==
    [][/\ Len(log') >= Len(log)
       /\ SubSeq(log', 1, Len(log)) = log
       /\ pc = "insurance" =>
            /\ Len(log') <= Len(log) + 1
            /\ log' # log =>
                 /\ C10_ExpiredBranch(tira')
                 /\ Truthy(insurance', "expired")
                 /\ insurance'.expired_days # None
                 /\ log'[Len(log')] = log_alert("insurance", plate, insurance'.expired_days[1])
            /\ (IsError(insurance') \/ Truthy(insurance', "active")
                \/ tira'.res.body.entries = <<>>) => log' = log]_vars

\* an expired result whose line was appended after a line already there
C10_Witness ==
    /\ InsuranceCalled /\ C10_ExpiredBranch(tira)
    /\ Truthy(insurance, "expired") /\ insurance.expired_days # None
    /\ Len(log) = 2
    /\ log[1] \in {l[1] : l \in SeedLogs \ {<<>>}}
    /\ log[2] = log_alert("insurance", plate, insurance.expired_days[1])

====
